---- MODULE Spec2Model ----
(***************************************************************************)
(* Model of package_statistics.py: the Debian package statistics tool.     *)
(* One run of main() is a state machine over pc; count_files_per_package   *)
(* and display_top_packages are also exercised on their own, as the unit   *)
(* tests call them (SpecCount, SpecDisplay).                               *)
(*                                                                         *)
(* Text is a sequence of one-character strings; a token / package name and *)
(* a printed line are strings.  Only command lines that argparse accepts   *)
(* are modelled (one positional argument, a valid --log-level); logging at *)
(* INFO level and the timers are not part of the model, logging.error is.  *)
(***************************************************************************)
EXTENDS Integers, Sequences, FiniteSets, TLC

VARIABLES
    pc,                 \* position of the run
    argv,               \* the architecture given on the command line
    args,               \* args.architecture as returned by parse_arguments
    requests,           \* URLs requested with requests.get, in order
    fetch_outcome,      \* "none", "ok" or the exception of the fetch
    content,            \* response.content: [kind, text]
    decode_outcome,     \* "none", "ok" or the exception of the decoding
    lines,              \* [isNone, list]: result of download_contents_file
    package_counts,     \* dict in insertion order: Seq of [package, count]
    top_n,              \* display_top_packages' parameter
    top_packages,       \* the selected entries
    max_package_length, \* width of the package column
    row,                \* index of the next row to print
    stdout,             \* the print calls so far, one string per call
    errors,             \* the logging.error calls so far
    exception,          \* the exception propagating, "none" if none
    exit_code           \* -1 while running, else the process exit status

vars == <<pc, argv, args, requests, fetch_outcome, content, decode_outcome,
          lines, package_counts, top_n, top_packages, max_package_length,
          row, stdout, errors, exception, exit_code>>

----------------------------------------------------------------------------
(* Bounds of the model *)

MaxText == 7        \* characters of the lines handed to count_files_per_package
MaxBody == 6        \* characters in a downloaded, decompressed Contents file
MaxEntries == 3     \* entries of a count table handed to display_top_packages
MaxTopN == 3        \* largest top_n handed to display_top_packages

(* Program constants *)

DEFAULT_TOP_N == 10
COUNT_WIDTH == 6

SUPPORTED_ARCHITECTURES ==
    {"amd64", "arm64", "armel", "armhf", "i386", "mips64el", "mipsel",
     "ppc64el", "s390x", "all"}

HEADER == "\nTop 10 Packages by Number of Files:"

----------------------------------------------------------------------------
(* Input domains *)

Chars == {" ", "\n", "a", ","}

TextsUpTo(n) == UNION {[1..k -> Chars] : k \in 0..n}

Texts == TextsUpTo(MaxText)

Bodies == TextsUpTo(MaxBody)

ArchArgs == {"amd64", "all", "sparc", "source"}

FetchOutcomes == {"200", "404", "500", "ConnectionError", "Timeout"}

DecodeFailures == {"BadGzipFile", "EOFError", "zlib.error", "UnicodeDecodeError"}

Payloads == {[kind |-> "gzip", text |-> t] : t \in Bodies}
            \cup {[kind |-> k, text |-> <<>>] : k \in DecodeFailures}

NoContent == [kind |-> "none", text |-> <<>>]
NoLines == [isNone |-> TRUE, list |-> <<>>]

----------------------------------------------------------------------------
(* download_contents_file: file.readlines() on the decompressed text *)

RECURSIVE ReadFrom(_, _, _, _)
ReadFrom(text, i, cur, acc) ==
    IF i > Len(text)
    THEN IF cur = <<>> THEN acc ELSE Append(acc, cur)
    ELSE IF text[i] = "\n"
         THEN ReadFrom(text, i + 1, <<>>, Append(acc, Append(cur, "\n")))
         ELSE ReadFrom(text, i + 1, Append(cur, text[i]), acc)

ReadLines(text) == ReadFrom(text, 1, <<>>, <<>>)

----------------------------------------------------------------------------
(* count_files_per_package *)

\* fault variant: the comma taken for a separator as well
IsSpaceOrComma(c) == c \in {" ", "\t", "\n", "\r", "\f", ","}

IsSpace(c) == c \in {" ", "\t", "\n", "\r", "\f"}

\* line.split(): the maximal runs of non-whitespace characters, as strings
RECURSIVE SplitFrom(_, _, _, _)
SplitFrom(s, i, cur, acc) ==
    IF i > Len(s)
    THEN IF cur = "" THEN acc ELSE Append(acc, cur)
    ELSE IF IsSpace(s[i])
         THEN SplitFrom(s, i + 1, "", IF cur = "" THEN acc ELSE Append(acc, cur))
         ELSE SplitFrom(s, i + 1, cur \o s[i], acc)

Split(line) == SplitFrom(line, 1, "", <<>>)

\* fault variant: parts instead of parts[1:], the file path counted too
PackagesWithPath(parts) == parts

\* parts[1:]
Packages(parts) == Tail(parts)

Keys(counts) == {counts[i].package : i \in 1..Len(counts)}

IndexOf(counts, package) ==
    CHOOSE i \in 1..Len(counts) : counts[i].package = package

\* package_counts[package] += 1 on a defaultdict(int)
Increment(counts, package) ==
    IF package \in Keys(counts)
    THEN [counts EXCEPT ![IndexOf(counts, package)].count = @ + 1]
    ELSE Append(counts, [package |-> package, count |-> 1])

RECURSIVE IncrementAll(_, _)
IncrementAll(counts, packages) ==
    IF packages = <<>> THEN counts
    ELSE IncrementAll(Increment(counts, Head(packages)), Tail(packages))

CountLine(counts, line) ==
    LET parts == Split(line)
    IN  IF Len(parts) > 1 THEN IncrementAll(counts, Packages(parts)) ELSE counts

RECURSIVE CountFrom(_, _, _)
CountFrom(ls, i, counts) ==
    IF i > Len(ls) THEN counts
    ELSE CountFrom(ls, i + 1, CountLine(counts, ls[i]))

count_files_per_package(ls) == CountFrom(ls, 1, <<>>)

----------------------------------------------------------------------------
(* display_top_packages *)

\* fault variant: an unstable sort, equal counts in reverse encounter order
InsertDescTiesFirst(sorted, e) ==
    LET p == Cardinality({i \in 1..Len(sorted) : sorted[i].count > e.count})
    IN  SubSeq(sorted, 1, p) \o <<e>> \o SubSeq(sorted, p + 1, Len(sorted))

\* one step of sorted(items, key=count, reverse=True): the sort is stable, so
\* an entry goes after every entry whose count is at least its own
InsertDesc(sorted, e) ==
    LET p == Cardinality({i \in 1..Len(sorted) : sorted[i].count >= e.count})
    IN  SubSeq(sorted, 1, p) \o <<e>> \o SubSeq(sorted, p + 1, Len(sorted))

RECURSIVE SortFrom(_, _, _)
SortFrom(items, i, sorted) ==
    IF i > Len(items) THEN sorted
    ELSE SortFrom(items, i + 1, InsertDesc(sorted, items[i]))

SortedByCountDesc(items) == SortFrom(items, 1, <<>>)

\* items[:n] for n >= 0
Take(items, n) == SubSeq(items, 1, IF n < Len(items) THEN n ELSE Len(items))

\* fault variant: the width taken over the whole table, not the selection
MaxPackageLengthOfTable(entries) ==
    LET lens == {Len(package_counts[i].package) : i \in 1..Len(package_counts)}
    IN  CHOOSE m \in lens : \A l \in lens : l <= m

\* max(len(package) for package, _ in entries), for non-empty entries
MaxPackageLength(entries) ==
    LET lens == {Len(entries[i].package) : i \in 1..Len(entries)}
    IN  CHOOSE m \in lens : \A l \in lens : l <= m

RECURSIVE Spaces(_)
Spaces(n) == IF n <= 0 THEN "" ELSE " " \o Spaces(n - 1)

DigitChars == <<"0", "1", "2", "3", "4", "5", "6", "7", "8", "9">>

\* str(n) for n >= 0
RECURSIVE Str(_)
Str(n) ==
    IF n < 10 THEN DigitChars[n + 1]
    ELSE Str(n \div 10) \o DigitChars[(n % 10) + 1]

\* s.ljust(width)
Ljust(s, width) == s \o Spaces(width - Len(s))

\* f"{count:>6}"
FormatCount(count) == Spaces(COUNT_WIDTH - Len(Str(count))) \o Str(count)

\* f"{package.ljust(max_package_length)} {count:>6}"
FormatRow(e, width) == Ljust(e.package, width) \o " " \o FormatCount(e.count)

----------------------------------------------------------------------------
(* The run: main() *)

Url(architecture) ==
    "http://ftp.uk.debian.org/debian/dists/stable/main/Contents-"
        \o architecture \o ".gz"

\* the truth value of `lines` in `if lines:`
Truthy(l) == ~l.isNone /\ l.list # <<>>

\* the state before anything ran, at position p
Fresh(p) ==
    /\ pc = p
    /\ args = ""
    /\ requests = <<>>
    /\ fetch_outcome = "none"
    /\ content = NoContent
    /\ decode_outcome = "none"
    /\ top_packages = <<>>
    /\ max_package_length = 0
    /\ row = 0
    /\ stdout = <<>>
    /\ errors = <<>>
    /\ exception = "none"
    /\ exit_code = -1

Init ==
    /\ Fresh("parse")
    /\ argv \in ArchArgs
    /\ lines = NoLines
    /\ package_counts = <<>>
    /\ top_n = 0

\* fault variant: the error is logged but exit(1) is missing
ParseArgumentsNoExit ==
    /\ pc = "parse"
    /\ errors' = IF argv \notin SUPPORTED_ARCHITECTURES
                 THEN Append(errors, "Unsupported architecture specified")
                 ELSE errors
    /\ args' = argv
    /\ pc' = "download"
    /\ UNCHANGED <<argv, requests, fetch_outcome, content, decode_outcome,
                   lines, package_counts, top_n, top_packages,
                   max_package_length, row, stdout, exception, exit_code>>

\* parse_arguments: exit(1) on an unsupported architecture, else return args
ParseArguments ==
    /\ pc = "parse"
    /\ IF argv \notin SUPPORTED_ARCHITECTURES
       THEN /\ errors' = Append(errors, "Unsupported architecture specified")
            /\ exit_code' = 1
            /\ pc' = "exited"
            /\ UNCHANGED args
       ELSE /\ args' = argv
            /\ pc' = "download"
            /\ UNCHANGED <<errors, exit_code>>
    /\ UNCHANGED <<argv, requests, fetch_outcome, content, decode_outcome,
                   lines, package_counts, top_n, top_packages,
                   max_package_length, row, stdout, exception>>

\* fault variant: no except clause for RequestException
FetchFailedUncaught(exc) ==
    /\ fetch_outcome' = exc
    /\ exception' = exc
    /\ pc' = "raised"
    /\ UNCHANGED <<content, errors, lines>>

\* except requests.exceptions.RequestException: log the error, return None
FetchFailed(exc) ==
    /\ fetch_outcome' = exc
    /\ errors' = Append(errors, "Error downloading file")
    /\ lines' = NoLines
    /\ pc' = "check_lines"
    /\ UNCHANGED <<content, exception>>

\* download_contents_file, first half: requests.get and raise_for_status
Fetch ==
    /\ pc = "download"
    /\ requests' = Append(requests, Url(args))
    /\ \E o \in FetchOutcomes :
          IF o = "200"
          THEN /\ \E payload \in Payloads : content' = payload
               /\ fetch_outcome' = "ok"
               /\ pc' = "decompress"
               /\ UNCHANGED <<errors, lines, exception>>
          ELSE FetchFailed(IF o \in {"404", "500"} THEN "HTTPError" ELSE o)
    /\ UNCHANGED <<argv, args, decode_outcome, package_counts, top_n,
                   top_packages, max_package_length, row, stdout, exit_code>>

\* download_contents_file, second half: gzip.open(...).readlines(); only
\* gzip.BadGzipFile has an except clause
Decompress ==
    /\ pc = "decompress"
    /\ IF content.kind = "gzip"
       THEN /\ decode_outcome' = "ok"
            /\ lines' = [isNone |-> FALSE, list |-> ReadLines(content.text)]
            /\ pc' = "check_lines"
            /\ UNCHANGED <<errors, exception>>
       ELSE IF content.kind = "BadGzipFile"
       THEN /\ decode_outcome' = content.kind
            /\ errors' = Append(errors, "Error decompressing file")
            /\ lines' = NoLines
            /\ pc' = "check_lines"
            /\ UNCHANGED exception
       ELSE /\ decode_outcome' = content.kind
            /\ exception' = content.kind
            /\ pc' = "raised"
            /\ UNCHANGED <<errors, lines>>
    /\ UNCHANGED <<argv, args, requests, fetch_outcome, content,
                   package_counts, top_n, top_packages, max_package_length,
                   row, stdout, exit_code>>

\* main: `if lines:` ... `else: logging.error("No data to process ...")`
MainCheckLines ==
    /\ pc = "check_lines"
    /\ IF Truthy(lines)
       THEN /\ pc' = "count"
            /\ UNCHANGED <<errors, exit_code>>
       ELSE /\ errors' = Append(errors, "No data to process")
            /\ pc' = "done"
            /\ exit_code' = 0
    /\ UNCHANGED <<argv, args, requests, fetch_outcome, content,
                   decode_outcome, lines, package_counts, top_n, top_packages,
                   max_package_length, row, stdout, exception>>

CountFiles ==
    /\ pc = "count"
    /\ package_counts' = count_files_per_package(lines.list)
    /\ pc' = "counted"
    /\ UNCHANGED <<argv, args, requests, fetch_outcome, content,
                   decode_outcome, lines, top_n, top_packages,
                   max_package_length, row, stdout, errors, exception,
                   exit_code>>

\* main: display_top_packages(package_counts), top_n defaulted
MainCallDisplay ==
    /\ pc = "counted"
    /\ top_n' = DEFAULT_TOP_N
    /\ pc' = "display"
    /\ UNCHANGED <<argv, args, requests, fetch_outcome, content,
                   decode_outcome, lines, package_counts, top_packages,
                   max_package_length, row, stdout, errors, exception,
                   exit_code>>

\* fault variant: the header printed before max() is evaluated
DisplayBeginHeaderFirst ==
    /\ pc = "display"
    /\ stdout' = Append(stdout, HEADER)
    /\ LET top == Take(SortedByCountDesc(package_counts), top_n)
       IN  /\ top_packages' = top
           /\ IF top = <<>>
              THEN /\ exception' = "ValueError"
                   /\ pc' = "raised"
                   /\ UNCHANGED <<max_package_length, row>>
              ELSE /\ max_package_length' = MaxPackageLength(top)
                   /\ row' = 1
                   /\ pc' = "print_rows"
                   /\ UNCHANGED exception
    /\ UNCHANGED <<argv, args, requests, fetch_outcome, content,
                   decode_outcome, lines, package_counts, top_n, errors,
                   exit_code>>

\* display_top_packages up to the first print: the sort, the slice and max(),
\* which raises ValueError on an empty selection
DisplayBegin ==
    /\ pc = "display"
    /\ LET top == Take(SortedByCountDesc(package_counts), top_n)
       IN  /\ top_packages' = top
           /\ IF top = <<>>
              THEN /\ exception' = "ValueError"
                   /\ pc' = "raised"
                   /\ UNCHANGED max_package_length
              ELSE /\ max_package_length' = MaxPackageLength(top)
                   /\ pc' = "print_header"
                   /\ UNCHANGED exception
    /\ UNCHANGED <<argv, args, requests, fetch_outcome, content,
                   decode_outcome, lines, package_counts, top_n, row, stdout,
                   errors, exit_code>>

PrintHeader ==
    /\ pc = "print_header"
    /\ stdout' = Append(stdout, HEADER)
    /\ row' = 1
    /\ pc' = "print_rows"
    /\ UNCHANGED <<argv, args, requests, fetch_outcome, content,
                   decode_outcome, lines, package_counts, top_n, top_packages,
                   max_package_length, errors, exception, exit_code>>

PrintRow ==
    /\ pc = "print_rows"
    /\ row <= Len(top_packages)
    /\ stdout' = Append(stdout, FormatRow(top_packages[row], max_package_length))
    /\ row' = row + 1
    /\ UNCHANGED <<pc, argv, args, requests, fetch_outcome, content,
                   decode_outcome, lines, package_counts, top_n, top_packages,
                   max_package_length, errors, exception, exit_code>>

\* the print() after the loop; display_top_packages returns
PrintBlank ==
    /\ pc = "print_rows"
    /\ row > Len(top_packages)
    /\ stdout' = Append(stdout, "")
    /\ pc' = "after_display"
    /\ UNCHANGED <<argv, args, requests, fetch_outcome, content,
                   decode_outcome, lines, package_counts, top_n, top_packages,
                   max_package_length, row, errors, exception, exit_code>>

\* main returns; the interpreter exits with status 0
MainEnd ==
    /\ pc = "after_display"
    /\ pc' = "done"
    /\ exit_code' = 0
    /\ UNCHANGED <<argv, args, requests, fetch_outcome, content,
                   decode_outcome, lines, package_counts, top_n, top_packages,
                   max_package_length, row, stdout, errors, exception>>

\* an exception nobody catches leaves main; the interpreter exits with status 1
Abort ==
    /\ pc = "raised"
    /\ pc' = "exited"
    /\ exit_code' = 1
    /\ UNCHANGED <<argv, args, requests, fetch_outcome, content,
                   decode_outcome, lines, package_counts, top_n, top_packages,
                   max_package_length, row, stdout, errors, exception>>

Next ==
    \/ ParseArguments
    \/ Fetch
    \/ Decompress
    \/ MainCheckLines
    \/ CountFiles
    \/ MainCallDisplay
    \/ DisplayBegin
    \/ PrintHeader
    \/ PrintRow
    \/ PrintBlank
    \/ MainEnd
    \/ Abort

Spec == Init /\ [][Next]_vars

----------------------------------------------------------------------------
(* count_files_per_package called on its own, as the unit tests do *)

\* the line without its line terminator, as the unit tests write lines
Chomp(line) ==
    IF line # <<>> /\ line[Len(line)] = "\n"
    THEN SubSeq(line, 1, Len(line) - 1)
    ELSE line

RECURSIVE ChompFrom(_, _, _)
ChompFrom(ls, i, acc) ==
    IF i > Len(ls) THEN acc
    ELSE ChompFrom(ls, i + 1, Append(acc, Chomp(ls[i])))

\* the lines of a text, with or without their line terminators
LineList(text, chomp) ==
    IF chomp THEN ChompFrom(ReadLines(text), 1, <<>>) ELSE ReadLines(text)

InitCount ==
    /\ Fresh("count")
    /\ argv = "amd64"
    /\ \E t \in Texts, chomp \in BOOLEAN :
          lines = [isNone |-> FALSE, list |-> LineList(t, chomp)]
    /\ package_counts = <<>>
    /\ top_n = 0

NextCount == CountFiles

SpecCount == InitCount /\ [][NextCount]_vars

----------------------------------------------------------------------------
(* display_top_packages called on its own, as the unit tests do *)

NamePool == {"a", "bb", "a,c", "dddd"}

CountPool == {1, 2, 999999, 1000000}

Entries == [package : NamePool, count : CountPool]

Tables ==
    UNION {{t \in [1..k -> Entries] :
               \A i, j \in 1..k : i # j => t[i].package # t[j].package}
           : k \in 0..MaxEntries}

InitDisplay ==
    /\ Fresh("display")
    /\ argv = "amd64"
    /\ lines = NoLines
    /\ package_counts \in Tables
    /\ top_n \in 0..MaxTopN

NextDisplay ==
    \/ DisplayBegin
    \/ PrintHeader
    \/ PrintRow
    \/ PrintBlank

SpecDisplay == InitDisplay /\ [][NextDisplay]_vars

----------------------------------------------------------------------------
(* Either function called on its own: the table that count_files_per_package *)
(* returns is the kind of table display_top_packages is handed              *)

InitRank == InitCount \/ InitDisplay

NextRank == NextCount \/ NextDisplay

SpecRank == InitRank /\ [][NextRank]_vars

----------------------------------------------------------------------------
(* Properties.  Tokens are described here by position, independently of     *)
(* Split: a token of a line is a maximal run of non-blank characters.      *)

Blank(c) == c \in {" ", "\t", "\n", "\r", "\f"}

IsRun(line, i, j) ==
    /\ i <= j
    /\ \A k \in i..j : ~Blank(line[k])
    /\ i = 1 \/ Blank(line[i - 1])
    /\ j = Len(line) \/ Blank(line[j + 1])

Runs(line) ==
    {r \in (1..Len(line)) \X (1..Len(line)) : IsRun(line, r[1], r[2])}

\* the tokens after the first one
LaterRuns(line) ==
    {r \in Runs(line) : \E q \in Runs(line) : q[1] < r[1]}

RECURSIVE RunText(_, _, _)
RunText(line, i, j) ==
    IF i > j THEN "" ELSE line[i] \o RunText(line, i + 1, j)

\* every occurrence <<line number, first, last>> of a token after the first
Occurrences(ls) ==
    UNION {{<<l, r[1], r[2]>> : r \in LaterRuns(ls[l])} : l \in 1..Len(ls)}

OccText(ls, o) == RunText(ls[o[1]], o[2], o[3])

RECURSIVE SumCounts(_)
SumCounts(counts) ==
    IF counts = <<>> THEN 0 ELSE Head(counts).count + SumCounts(Tail(counts))

RECURSIVE LaterTokenTotal(_)
LaterTokenTotal(ls) ==
    IF ls = <<>> THEN 0
    ELSE (IF Cardinality(Runs(Head(ls))) >= 2
          THEN Cardinality(Runs(Head(ls))) - 1 ELSE 0)
         + LaterTokenTotal(Tail(ls))

\* C1: the table returned by count_files_per_package has exactly one entry
\* per name occurring as a token after the first token of some line, and the
\* entry's count is the number of such occurrences over all lines (with
\* multiplicity); no occurrence, no entry.
C1_CountsAreOccurrences ==
    pc = "counted" =>
        LET occ == Occurrences(lines.list)
            n == Len(package_counts)
        IN  /\ Keys(package_counts) = {OccText(lines.list, o) : o \in occ}
            /\ \A i, j \in 1..n :
                  i # j => package_counts[i].package # package_counts[j].package
            /\ \A i \in 1..n :
                  package_counts[i].count =
                      Cardinality({o \in occ : OccText(lines.list, o)
                                                 = package_counts[i].package})

\* two lines naming the same package once each
C1_Witness ==
    /\ pc = "counted"
    /\ Len(lines.list) = 2
    /\ \A l \in 1..2 : Cardinality(LaterRuns(lines.list[l])) = 1
    /\ package_counts = <<[package |-> "a", count |-> 2]>>

\* C10: lines are split on whitespace only.  The counts add up to the number
\* of tokens after the first over the lines with at least two tokens; every
\* such token is a key as a whole; a part of a token that ends at a comma is
\* a key only if it is itself a whole token after the first somewhere.
C10_WhitespaceOnlyOpaqueKeys ==
    pc = "counted" =>
        LET ls == lines.list
            occ == Occurrences(ls)
        IN  /\ SumCounts(package_counts) = LaterTokenTotal(ls)
            /\ \A o \in occ :
                  /\ OccText(ls, o) \in Keys(package_counts)
                  /\ \A k \in o[2]..o[3] :
                        (ls[o[1]][k] = "," /\ k > o[2]
                         /\ RunText(ls[o[1]], o[2], k - 1) \in Keys(package_counts))
                        => \E q \in occ :
                              OccText(ls, q) = RunText(ls[o[1]], o[2], k - 1)

\* "a,a" counted as one key while "a" is not a key
C10_Witness ==
    /\ pc = "counted"
    /\ "a,a" \in Keys(package_counts)
    /\ "a" \notin Keys(package_counts)
    /\ Len(package_counts) = 2

----------------------------------------------------------------------------
(* Properties of the run *)

Terminated == pc \in {"done", "exited"}

FetchFailure == fetch_outcome \notin {"none", "ok"}

DecodeFailure == decode_outcome \notin {"none", "ok"}

Logged(message) == \E i \in 1..Len(errors) : errors[i] = message

Min(a, b) == IF a < b THEN a ELSE b

\* stdout holds the header, one row per selected entry, and the blank line
CompleteTable ==
    /\ Len(top_packages) = Min(top_n, Len(package_counts))
    /\ Len(stdout) = Len(top_packages) + 2
    /\ stdout[1] = HEADER
    /\ stdout[Len(stdout)] = ""
    /\ \A i \in 1..Len(top_packages) :
          stdout[i + 1] = FormatRow(top_packages[i], max_package_length)

\* C2: an architecture outside the supported set ends the run in
\* parse_arguments with exit status 1 and no request is ever issued; a
\* supported one is returned unchanged and the run goes on to the download.
C2_InvalidArchitectureExitsBeforeFetch ==
    /\ argv \notin SUPPORTED_ARCHITECTURES =>
          /\ requests = <<>>
          /\ fetch_outcome = "none"
          /\ pc \in {"parse", "exited"}
          /\ pc = "exited" => exit_code = 1 /\ exception = "none"
    /\ (argv \in SUPPORTED_ARCHITECTURES /\ pc # "parse") =>
          /\ args = argv
          /\ pc = "download" \/ requests = <<Url(argv)>>

C2_Witness ==
    /\ argv = "sparc"
    /\ pc = "exited"
    /\ exit_code = 1
    /\ Logged("Unsupported architecture specified")

\* C3: after a failed fetch (transport error or error status) there is still
\* exactly one request, the error is logged, nothing is counted, selected or
\* printed, and the run ends normally with exit status 0.
C3_FetchFailureEndsGracefully ==
    FetchFailure =>
        /\ Len(requests) = 1
        /\ Logged("Error downloading file")
        /\ exception = "none"
        /\ package_counts = <<>>
        /\ top_packages = <<>>
        /\ stdout = <<>>
        /\ \/ pc = "check_lines" /\ ~Truthy(lines)
           \/ pc = "done" /\ exit_code = 0 /\ Logged("No data to process")

C3_Witness ==
    /\ fetch_outcome = "HTTPError"
    /\ pc = "done"
    /\ exit_code = 0

\* C4: every decode failure is handled like a transport failure: caught,
\* logged, nothing printed, exit status 0, never an uncaught exception.
C4_DecodeFailureEndsGracefully ==
    DecodeFailure =>
        /\ Logged("Error decompressing file")
        /\ exception = "none"
        /\ stdout = <<>>
        /\ \/ pc = "check_lines" /\ ~Truthy(lines)
           \/ pc = "done" /\ exit_code = 0 /\ Logged("No data to process")

\* C7: when the run has ended, whatever happened, standard output holds
\* either nothing or the complete table.
C7_OutputAllOrNothing ==
    Terminated => stdout = <<>> \/ CompleteTable

\* the run that dies in max() on an empty selection has printed nothing
C7_Witness ==
    /\ pc = "exited"
    /\ exception = "ValueError"
    /\ decode_outcome = "ok"
    /\ stdout = <<>>

\* C8: when the architecture is valid and fetch and decode succeed, the run
\* ends in Done with the table rendered, whatever the decoded lines are; the
\* run fails only when validation, fetch or decode failed.
C8_SuccessfulDecodeReachesDone ==
    (Terminated /\ fetch_outcome = "ok" /\ decode_outcome = "ok") =>
        /\ pc = "done"
        /\ exit_code = 0
        /\ errors = <<>>
        /\ package_counts = count_files_per_package(lines.list)
        /\ CompleteTable

----------------------------------------------------------------------------
(* Properties of display_top_packages *)

Returned == pc = "after_display"

DisplayEnded == pc \in {"after_display", "raised"}

\* the lines printed between the header and the blank line
PrintedRows ==
    IF Len(stdout) < 2 THEN <<>> ELSE SubSeq(stdout, 2, Len(stdout) - 1)

\* where a selected entry sits in the table (names are unique keys)
TableIndex(i) == IndexOf(package_counts, top_packages[i].package)

Omitted ==
    {m \in 1..Len(package_counts) :
        \A i \in 1..Len(top_packages) : TableIndex(i) # m}

\* the longest name among the selected entries
SelectedWidth ==
    CHOOSE w \in 0..100 :
        /\ \A i \in 1..Len(top_packages) : Len(top_packages[i].package) <= w
        /\ \E i \in 1..Len(top_packages) : Len(top_packages[i].package) = w

\* the number of decimal digits of n >= 1
DecimalDigits(n) == CHOOSE d \in 1..12 : 10 ^ (d - 1) <= n /\ n < 10 ^ d

\* C5: for every table (the empty one too) and every top_n >= 0 (0 too)
\* display_top_packages returns without raising, having printed the header,
\* min(top_n, table size) rows and the blank line.
C5_DisplayNeverRaises ==
    DisplayEnded =>
        /\ Returned
        /\ exception = "none"
        /\ Len(stdout) = Min(top_n, Len(package_counts)) + 2
        /\ stdout[1] = HEADER
        /\ stdout[Len(stdout)] = ""

\* o comes before q in the input: an earlier line, or earlier in the line
Before(o, q) == o[1] < q[1] \/ (o[1] = q[1] /\ o[2] < q[2])

\* C6: the rows are min(top_n, table size) distinct entries of the table in
\* non-increasing order of count; no omitted entry has a larger count than a
\* listed one; entries with equal counts are listed, and chosen at the
\* cut-off, in the order of the table, which is the order in which the
\* aggregation first met their names.
C6_RowsSortedStable ==
    /\ pc = "counted" =>
          LET ls == lines.list
              occ == Occurrences(ls)
          IN  \A i, j \in 1..Len(package_counts) :
                 i < j =>
                    \E o \in occ :
                       /\ OccText(ls, o) = package_counts[i].package
                       /\ \A q \in occ :
                             OccText(ls, q) = package_counts[j].package
                                => Before(o, q)
    /\ DisplayEnded =>
        LET k == Len(top_packages)
        IN  /\ k = Min(top_n, Len(package_counts))
            /\ Len(PrintedRows) = k
            /\ \A i \in 1..k :
                  /\ top_packages[i].package \in Keys(package_counts)
                  /\ top_packages[i] = package_counts[TableIndex(i)]
                  /\ PrintedRows[i]
                        = FormatRow(top_packages[i], max_package_length)
            /\ \A i, j \in 1..k :
                  i < j =>
                     /\ TableIndex(i) # TableIndex(j)
                     /\ top_packages[i].count >= top_packages[j].count
                     /\ top_packages[i].count = top_packages[j].count
                           => TableIndex(i) < TableIndex(j)
            /\ \A m \in Omitted : \A i \in 1..k :
                  /\ package_counts[m].count <= top_packages[i].count
                  /\ package_counts[m].count = top_packages[i].count
                        => TableIndex(i) < m

\* three entries with one count, two of them selected
C6_Witness ==
    /\ Returned
    /\ Len(package_counts) = 3
    /\ top_n = 2
    /\ package_counts[1].count = package_counts[2].count
    /\ package_counts[2].count = package_counts[3].count
    /\ Len(PrintedRows) = 2

====
